---- MODULE Spec2Model ----
(***************************************************************************)
(* State-machine model of MediaLibraryManagerPlugin                        *)
(* (src/plugins.v2/__init__.py): the scan pipeline (run_scan: inventory -> *)
(* enrichment -> merge) and the deletion protocol (run_delete: deletion    *)
(* list -> execution), together with the artifacts they leave on disk.     *)
(*                                                                         *)
(* Text values (paths, titles, Action cells) are sequences of one-letter   *)
(* strings, so that strip(), upper() and the spreadsheet round trip are     *)
(* computed, not assumed.  The one-element sequence NaN stands for the      *)
(* float NaN that pandas.read_excel returns for an empty cell.             *)
(***************************************************************************)
EXTENDS Naturals, Sequences, FiniteSets, TLC

VARIABLES
    config,   \* self.tmdb_api_key, self.movie_path, self.tv_path
    fs,       \* paths of the media files that exist as regular files
    inv,      \* inventory_movies.xlsx / inventory_tv.xlsx
    enr,      \* enriched_movies.xlsx / enriched_tv.xlsx
    master,   \* _MASTER_inventory.xlsx
    plan,     \* files_to_delete.txt
    edits,    \* number of hand edits made to the current master ledger
    last,     \* observation of the most recent operation (what it did)
    runs      \* run_delete invocations in flight at once: position and locals

vars == <<config, fs, inv, enr, master, plan, edits, last, runs>>

-----------------------------------------------------------------------------
(* Bounds of the model.                                                    *)

\* Largest number of media files present when the plugin is loaded, in the
\* scan-pipeline specification.
MaxFiles == 2

\* Largest number of hand edits applied to one generation of the ledger.
MaxEdits == 3

-----------------------------------------------------------------------------
(* Text.                                                                   *)

NaN == <<"NaN">>
None == <<"None">>
EmptyStr == <<>>

Kinds == {"movie", "tv"}

\* str.upper(), letter by letter.
UpperChar(c) ==
    CASE c = "d" -> "D"
      [] c = "e" -> "E"
      [] c = "l" -> "L"
      [] c = "t" -> "T"
      [] c = "k" -> "K"
      [] c = "p" -> "P"
      [] c = "n" -> "N"
      [] c = "a" -> "A"
      [] OTHER -> c

Upper(s) == [i \in DOMAIN s |-> UpperChar(s[i])]

\* Series.astype(str): NaN becomes the text "nan".
AsTypeStr(v) == IF v = NaN THEN <<"n", "a", "n">> ELSE v

IsSpace(c) == c \in {" ", "\t", "\n"}

RECURSIVE LStrip(_)
LStrip(s) ==
    IF s = <<>> THEN <<>>
    ELSE IF IsSpace(Head(s)) THEN LStrip(Tail(s)) ELSE s

RECURSIVE RStrip(_)
RStrip(s) ==
    IF s = <<>> THEN <<>>
    ELSE IF IsSpace(s[Len(s)]) THEN RStrip(SubSeq(s, 1, Len(s) - 1)) ELSE s

\* str.strip()
Strip(s) == RStrip(LStrip(s))

\* DataFrame.to_excel for one cell: None, NaN and "" all leave the cell empty.
ToExcel(v) == IF v \in {None, NaN, EmptyStr} THEN EmptyStr ELSE v

\* pandas.read_excel for one cell: an empty cell is read as NaN.
ReadExcel(c) == IF c = EmptyStr THEN NaN ELSE c

-----------------------------------------------------------------------------
(* The media library: every file the model knows, in os.walk order, with   *)
(* the directory it lives under and the (title, year) its folder name      *)
(* normalises to.                                                          *)

MovieRoot == "/movies"
TvRoot == "/tv"

Y2010 == <<"2", "0", "1", "0">>

Library ==
    << [FilePath |-> <<"a">>, root |-> MovieRoot, title |-> <<"T">>, year |-> Y2010],
       [FilePath |-> <<"b">>, root |-> MovieRoot, title |-> <<"T">>, year |-> Y2010],
       [FilePath |-> <<"c">>, root |-> MovieRoot, title |-> <<"T">>, year |-> None],
       [FilePath |-> <<"d">>, root |-> TvRoot, title |-> <<"S">>, year |-> None],
       [FilePath |-> <<"e">>, root |-> TvRoot, title |-> <<"S">>, year |-> None],
       [FilePath |-> <<"f">>, root |-> TvRoot, title |-> EmptyStr, year |-> None] >>

AllPaths == {Library[i].FilePath : i \in DOMAIN Library}

\* The files present when the plugin is loaded, deletion-protocol specification.
StartFiles == {<<"a">>, <<"d">>}

NoFile == [exists |-> FALSE, rows |-> <<>>]
NoMaster == [exists |-> FALSE, hasAction |-> FALSE, rows |-> <<>>]
NoPlan == [exists |-> FALSE, lines |-> <<>>]

Range(s) == {s[i] : i \in DOMAIN s}

RECURSIVE SelectIdx(_, _, _)
\* The subsequence of s at the indices in keep, in order.
SelectIdx(s, keep, i) ==
    IF i > Len(s) THEN <<>>
    ELSE (IF i \in keep THEN <<s[i]>> ELSE <<>>) \o SelectIdx(s, keep, i + 1)

-----------------------------------------------------------------------------
(* run_delete: _create_deletion_list, then _execute_deletion.              *)

\* df = pd.read_excel(self.master_file)
ReadMaster(m) ==
    [i \in DOMAIN m.rows |->
        [m.rows[i] EXCEPT !.FilePath = ReadExcel(@), !.Action = ReadExcel(@)]]

\* df['Action'].astype(str).str.upper() == 'DELETE'
IsMarked(row) == Upper(AsTypeStr(row.Action)) = <<"D", "E", "L", "E", "T", "E">>

\* delete_df['FilePath'].tolist()
MarkedPaths(rows) ==
    LET keep == {i \in DOMAIN rows : IsMarked(rows[i])}
        sel == SelectIdx(rows, keep, 1)
    IN  [i \in DOMAIN sel |-> sel[i].FilePath]

\* f.write(path + "\n") for each path: NaN + "\n" raises TypeError, and the
\* lines written before it stay in the file.
RECURSIVE WritableLines(_)
WritableLines(paths) ==
    IF paths = <<>> \/ Head(paths) = NaN THEN <<>>
    ELSE <<Head(paths)>> \o WritableLines(Tail(paths))

\* _create_deletion_list: the plan file afterwards, whether the list was
\* (re)written, and whether the method raised.
create_deletion_list(m, p) ==
    LET rows == ReadMaster(m)
        paths == MarkedPaths(rows)
    IN  IF ~m.hasAction
        THEN [plan |-> p, wrote |-> FALSE, raised |-> FALSE, why |-> "no_action_column"]
        ELSE IF paths = <<>>
        THEN [plan |-> p, wrote |-> FALSE, raised |-> FALSE, why |-> "none_marked"]
        ELSE [plan |-> [exists |-> TRUE, lines |-> WritableLines(paths)],
              wrote |-> TRUE,
              raised |-> \E i \in DOMAIN paths : paths[i] = NaN,
              why |-> "written"]

\* files_to_delete = [line.strip() for line in f if line.strip()]
RECURSIVE ReadPlan(_)
ReadPlan(lines) ==
    IF lines = <<>> THEN <<>>
    ELSE (IF Strip(Head(lines)) # <<>> THEN <<Strip(Head(lines))>> ELSE <<>>)
         \o ReadPlan(Tail(lines))

\* The loop body as it would be with deleted_count += 1 placed before
\* os.remove: a removal that faults is counted.
remove_one_counts_attempts(p, st, faults) ==
    IF p \in st.fs /\ p \notin faults
    THEN [fs |-> st.fs \ {p}, count |-> st.count + 1, removed |-> Append(st.removed, p),
          visited |-> Append(st.visited, p)]
    ELSE IF p \in st.fs
    THEN [st EXCEPT !.visited = Append(@, p), !.count = @ + 1]
    ELSE [st EXCEPT !.visited = Append(@, p)]

\* The loop body as it would be if a path that no longer exists were counted
\* as deleted.
remove_one_counts_missing(p, st, faults) ==
    IF p \in st.fs /\ p \notin faults
    THEN [fs |-> st.fs \ {p}, count |-> st.count + 1, removed |-> Append(st.removed, p),
          visited |-> Append(st.visited, p)]
    ELSE IF p \notin st.fs
    THEN [st EXCEPT !.visited = Append(@, p), !.count = @ + 1]
    ELSE [st EXCEPT !.visited = Append(@, p)]

\* One iteration of the deletion loop on path p: os.remove(p) raises for the
\* paths in faults, and the except clause swallows it.
remove_one(p, st, faults) ==
    IF p \in st.fs /\ p \notin faults
    THEN [fs |-> st.fs \ {p}, count |-> st.count + 1, removed |-> Append(st.removed, p),
          visited |-> Append(st.visited, p)]
    ELSE [st EXCEPT !.visited = Append(@, p)]

\* The loop as it would be without the try/except around os.remove: the first
\* fault ends it.
RECURSIVE deletion_loop_abort(_, _, _)
deletion_loop_abort(paths, st, faults) ==
    IF paths = <<>> THEN st
    ELSE IF Head(paths) \in st.fs /\ Head(paths) \in faults
    THEN [st EXCEPT !.visited = Append(@, Head(paths))]
    ELSE deletion_loop_abort(Tail(paths), remove_one(Head(paths), st, faults), faults)

\* The loop over files_to_delete.
RECURSIVE deletion_loop(_, _, _)
deletion_loop(paths, st, faults) ==
    IF paths = <<>> THEN st
    ELSE deletion_loop(Tail(paths), remove_one(Head(paths), st, faults), faults)

\* _execute_deletion as it would be without os.remove(self.delete_list_file).
execute_deletion_keeps_list(p, files, faults) ==
    LET todo == ReadPlan(p.lines)
        st0 == [fs |-> files, count |-> 0, removed |-> <<>>, visited |-> <<>>]
        st == deletion_loop(todo, st0, faults)
    IN  IF ~p.exists
        THEN [fs |-> files, plan |-> p, result |-> "no_list", count |-> 0,
              removed |-> <<>>, visited |-> <<>>, read |-> <<>>]
        ELSE IF todo = <<>>
        THEN [fs |-> files, plan |-> p, result |-> "empty_list", count |-> 0,
              removed |-> <<>>, visited |-> <<>>, read |-> <<>>]
        ELSE [fs |-> st.fs, plan |-> p, result |-> "done", count |-> st.count,
              removed |-> st.removed, visited |-> st.visited, read |-> todo]

\* _execute_deletion
execute_deletion(p, files, faults) ==
    LET todo == ReadPlan(p.lines)
        st0 == [fs |-> files, count |-> 0, removed |-> <<>>, visited |-> <<>>]
        st == deletion_loop(todo, st0, faults)
    IN  IF ~p.exists
        THEN [fs |-> files, plan |-> p, result |-> "no_list", count |-> 0,
              removed |-> <<>>, visited |-> <<>>, read |-> <<>>]
        ELSE IF todo = <<>>
        THEN [fs |-> files, plan |-> p, result |-> "empty_list", count |-> 0,
              removed |-> <<>>, visited |-> <<>>, read |-> <<>>]
        ELSE [fs |-> st.fs, plan |-> NoPlan, result |-> "done", count |-> st.count,
              removed |-> st.removed, visited |-> st.visited, read |-> todo]

-----------------------------------------------------------------------------
(* run_scan: _generate_inventory, _enrich_inventory, _combine_inventories. *)

\* os.path.isdir(base_dir): the two library roots are directories; "/gone"
\* does not exist and "/file" is a regular file.
IsDir(p) == p \in {MovieRoot, TvRoot}

\* `if self.movie_path:` -- None and "" are falsy.
Truthy(v) == v \notin {"None", ""}

\* os.walk(base_dir), keeping the video files that exist.
Walk(base_dir, files) ==
    SelectIdx(Library,
              {i \in DOMAIN Library :
                  Library[i].root = base_dir /\ Library[i].FilePath \in files}, 1)

\* _generate_inventory: the inventory file of this kind afterwards.  A root that
\* is no directory and a scan that finds nothing both return before to_excel.
generate_inventory(base_dir, files, old) ==
    LET found == Walk(base_dir, files)
    IN  IF ~IsDir(base_dir) THEN old
        ELSE IF found = <<>> THEN old
        ELSE [exists |-> TRUE,
              rows |-> [i \in DOMAIN found |->
                          [SearchTitle |-> ToExcel(found[i].title),
                           SearchYear |-> ToExcel(found[i].year),
                           FilePath |-> ToExcel(found[i].FilePath)]]]

\* What this run's scan of a kind found (empty when the root is skipped).
ScanFound(base_dir, files) ==
    IF Truthy(base_dir) /\ IsDir(base_dir)
    THEN LET found == Walk(base_dir, files)
         IN  [i \in DOMAIN found |-> found[i].FilePath]
    ELSE <<>>

\* df = pd.read_excel(inventory_path)
ReadInventory(f) ==
    [i \in DOMAIN f.rows |->
        [SearchTitle |-> ReadExcel(f.rows[i].SearchTitle),
         SearchYear |-> ReadExcel(f.rows[i].SearchYear),
         FilePath |-> ReadExcel(f.rows[i].FilePath)]]

KeyOf(row) == <<row.SearchTitle, row.SearchYear>>

\* df.drop_duplicates(subset=['SearchTitle', 'SearchYear']): first row of each
\* key; drop_duplicates treats two missing values as equal.
UniqueItems(df) ==
    SelectIdx(df, {i \in DOMAIN df : \A j \in 1..(i - 1) : KeyOf(df[j]) # KeyOf(df[i])}, 1)

\* The outcomes of one lookup against the remote catalog.
Outcomes == {"search_error", "no_results", "details_error", "ok"}

\* The keys a lookup request can be sent for.
LookupKeys ==
    {<<"movie", <<"T">>, Y2010>>, <<"movie", <<"T">>, NaN>>, <<"tv", <<"S">>, NaN>>}

EmptyDetails == <<>>

\* The detail record the catalog holds for a title.
CatalogRecord(kind, key) == <<"tmdb", kind, key[1], key[2]>>

\* _get_tmdb_details: requests.utils.quote(title) is evaluated before the try
\* block and raises TypeError when the title is not text (NaN); inside the try
\* block every failure of either request becomes {}.
get_tmdb_details(key, kind, out) ==
    IF key[1] = NaN
    THEN [raised |-> TRUE, details |-> EmptyDetails]
    ELSE [raised |-> FALSE,
          details |-> IF out[<<kind, key[1], key[2]>>] = "ok"
                      THEN CatalogRecord(kind, key) ELSE EmptyDetails]

\* First pass of _enrich_inventory: one lookup per row of unique_items, stored
\* in item_details_cache; an exception ends the loop.
RECURSIVE fetch_all(_, _, _, _)
fetch_all(items, kind, out, acc) ==
    IF items = <<>> THEN acc
    ELSE LET key == KeyOf(Head(items))
             got == get_tmdb_details(key, kind, out)
             acc2 == [acc EXCEPT !.calls = Append(@, key)]
         IN  IF got.raised THEN [acc2 EXCEPT !.raised = TRUE]
             ELSE fetch_all(Tail(items), kind, out,
                            [acc2 EXCEPT !.cache = Append(@, [key |-> key, details |-> got.details])])

\* item_details_cache.get(key, {}).  The key is a tuple holding the row's
\* SearchYear object; a tuple with a NaN in it is found again only when both
\* tuples hold the very same NaN object (sameNaN), because NaN != NaN.
cache_get(cache, key, sameNaN) ==
    LET hits == {i \in DOMAIN cache :
                    cache[i].key = key /\ (key[2] # NaN \/ sameNaN)}
    IN  IF hits = {} THEN EmptyDetails
        ELSE cache[CHOOSE i \in hits : \A j \in hits : i >= j].details

\* _parse_movie_details / _parse_tv_details: the enrichment fields.
parse_details(details) == details

\* Whether the NaN cells of the SearchYear column are one shared object: never
\* when the whole column is missing (a float64 column, boxed anew on every
\* access); when the column also holds years it depends on how the reader
\* stored the column (shared).
YearNaNShared(df, shared) ==
    shared /\ \E i \in DOMAIN df : df[i].SearchYear # NaN

\* _enrich_inventory
enrich_inventory(f, kind, out, shared, old) ==
    LET df == ReadInventory(f)
        unique_items == UniqueItems(df)
        got == fetch_all(unique_items, kind, out,
                         [cache |-> <<>>, calls |-> <<>>, raised |-> FALSE])
        sameNaN == YearNaNShared(df, shared)
        enriched_data ==
            [i \in DOMAIN df |->
                LET details == cache_get(got.cache, KeyOf(df[i]), sameNaN)
                IN  [SearchTitle |-> ToExcel(df[i].SearchTitle),
                     SearchYear |-> ToExcel(df[i].SearchYear),
                     FilePath |-> ToExcel(df[i].FilePath),
                     TMDb |-> IF details # EmptyDetails
                              THEN parse_details(details) ELSE EmptyStr]]
    IN  [file |-> IF got.raised THEN old ELSE [exists |-> TRUE, rows |-> enriched_data],
         raised |-> got.raised,
         ran |-> TRUE,
         n |-> Len(df),
         k |-> Len(unique_items),
         calls |-> got.calls,
         cache |-> got.cache,
         failed |-> {key \in Range(got.calls) :
                        key[1] # NaN
                        /\ out[<<kind, key[1], key[2]>>] \in {"search_error", "details_error"}}]

NotRun == [file |-> NoFile, raised |-> FALSE, ran |-> FALSE, n |-> 0, k |-> 0,
           calls |-> <<>>, cache |-> <<>>, failed |-> {}]

\* df_movies['Type'] = 'Movie' / df_tv['Type'] = 'TV Show'
Tagged(f, type) ==
    [i \in DOMAIN f.rows |->
        [SearchTitle |-> ToExcel(ReadExcel(f.rows[i].SearchTitle)),
         SearchYear |-> ToExcel(ReadExcel(f.rows[i].SearchYear)),
         FilePath |-> ToExcel(ReadExcel(f.rows[i].FilePath)),
         TMDb |-> ToExcel(ReadExcel(f.rows[i].TMDb)),
         Type |-> type,
         Action |-> EmptyStr]]

\* _combine_inventories as it would be if the TV set were concatenated only
\* when there is no movie set.
combine_inventories_one_kind(e, old) ==
    IF ~e["movie"].exists /\ ~e["tv"].exists THEN old
    ELSE [exists |-> TRUE, hasAction |-> FALSE,
          rows |-> IF e["movie"].exists THEN Tagged(e["movie"], "Movie")
                   ELSE Tagged(e["tv"], "TV Show")]

\* _combine_inventories: the master ledger afterwards.  The ledger it writes
\* has no Action column.
combine_inventories(e, old) ==
    IF ~e["movie"].exists /\ ~e["tv"].exists THEN old
    ELSE [exists |-> TRUE, hasAction |-> FALSE,
          rows |-> (IF e["movie"].exists THEN Tagged(e["movie"], "Movie") ELSE <<>>)
                   \o (IF e["tv"].exists THEN Tagged(e["tv"], "TV Show") ELSE <<>>)]

\* The three stages of run_scan (inventory, enrichment, merge), up to the
\* return or to the exception that leaves them.
scan_stages(cfg, files, i0, e0, m0, out, shared) ==
    LET i1 == [i0 EXCEPT !["movie"] = IF Truthy(cfg.movie_path)
                                      THEN generate_inventory(cfg.movie_path, files, @) ELSE @]
        i2 == [i1 EXCEPT !["tv"] = IF Truthy(cfg.tv_path)
                                   THEN generate_inventory(cfg.tv_path, files, @) ELSE @]
        em == IF i2["movie"].exists
              THEN enrich_inventory(i2["movie"], "movie", out, shared, e0["movie"])
              ELSE [NotRun EXCEPT !.file = e0["movie"]]
        et == IF i2["tv"].exists /\ ~em.raised
              THEN enrich_inventory(i2["tv"], "tv", out, shared, e0["tv"])
              ELSE [NotRun EXCEPT !.file = e0["tv"]]
        e2 == [movie |-> em.file, tv |-> et.file]
        raised == em.raised \/ et.raised
    IN  [inv |-> i2, enr |-> e2,
         master |-> IF raised THEN m0 ELSE combine_inventories(e2, m0),
         result |-> IF raised THEN "EXC" ELSE "scan_done",
         stage |-> [movie |-> em, tv |-> et],
         merged |-> ~raised /\ (e2["movie"].exists \/ e2["tv"].exists),
         found |-> [movie |-> ScanFound(cfg.movie_path, files),
                    tv |-> ScanFound(cfg.tv_path, files)]]

\* What run_scan leaves when it returns at the credential check.
ScanAborted(i0, e0, m0) ==
    [inv |-> i0, enr |-> e0, master |-> m0, result |-> "None",
     stage |-> [movie |-> NotRun, tv |-> NotRun], merged |-> FALSE,
     found |-> [movie |-> <<>>, tv |-> <<>>]]

\* run_scan as it would be if the scan path went on into _execute_deletion.
run_scan_then_execute(cfg, files, p, i0, e0, m0, out, shared) ==
    IF ~Truthy(cfg.tmdb_api_key)
    THEN [fs |-> files, plan |-> p] @@ ScanAborted(i0, e0, m0)
    ELSE [fs |-> execute_deletion(p, files, {}).fs,
          plan |-> execute_deletion(p, files, {}).plan]
         @@ scan_stages(cfg, files, i0, e0, m0, out, shared)

\* run_scan as it would be without the credential check.
run_scan_unguarded(cfg, files, p, i0, e0, m0, out, shared) ==
    [fs |-> files, plan |-> p] @@ scan_stages(cfg, files, i0, e0, m0, out, shared)

\* run_scan: the credential check, then the stages.  No statement of it
\* touches a media file or the deletion list.
run_scan(cfg, files, p, i0, e0, m0, out, shared) ==
    IF ~Truthy(cfg.tmdb_api_key)
    THEN [fs |-> files, plan |-> p] @@ ScanAborted(i0, e0, m0)
    ELSE [fs |-> files, plan |-> p] @@ scan_stages(cfg, files, i0, e0, m0, out, shared)

\* run_delete as it would be without the test for the master ledger: reading
\* the absent ledger yields no rows and no Action column.
run_delete_unchecked(m, p, files, faults) ==
    LET cdl == create_deletion_list(m, p)
        ex == execute_deletion(cdl.plan, files, faults)
    IN  [fs |-> ex.fs, plan |-> ex.plan, master |-> m, result |-> ex.result, planner |-> cdl.why,
         wrote |-> cdl.wrote, listed |-> IF cdl.wrote THEN cdl.plan.lines ELSE <<>>,
         planfile |-> cdl.plan.lines, executor |-> ex.result, count |-> ex.count,
         removed |-> ex.removed, visited |-> ex.visited, read |-> ex.read]

\* run_delete as it would be if it rewrote the ledger without the rows of the
\* files it removed.
run_delete_prunes_ledger(m, p, files, faults) ==
    LET cdl == create_deletion_list(m, p)
        ex == execute_deletion(cdl.plan, files, faults)
        listed == IF cdl.wrote THEN cdl.plan.lines ELSE <<>>
        kept == SelectIdx(m.rows, {i \in DOMAIN m.rows :
                                     m.rows[i].FilePath \notin Range(ex.removed)}, 1)
    IN  IF ~m.exists
        THEN [fs |-> files, plan |-> p, master |-> m, result |-> "no_master",
              planner |-> "not_run", wrote |-> FALSE, listed |-> <<>>, planfile |-> <<>>,
              executor |-> "not_run", count |-> 0, removed |-> <<>>,
              visited |-> <<>>, read |-> <<>>]
        ELSE IF cdl.raised
        THEN [fs |-> files, plan |-> cdl.plan, master |-> m, result |-> "EXC",
              planner |-> cdl.why, wrote |-> cdl.wrote, listed |-> listed,
              planfile |-> <<>>, executor |-> "not_run", count |-> 0, removed |-> <<>>,
              visited |-> <<>>, read |-> <<>>]
        ELSE [fs |-> ex.fs, plan |-> ex.plan, master |-> [m EXCEPT !.rows = kept],
              result |-> ex.result, planner |-> cdl.why,
              wrote |-> cdl.wrote, listed |-> listed, planfile |-> cdl.plan.lines,
              executor |-> ex.result, count |-> ex.count,
              removed |-> ex.removed, visited |-> ex.visited, read |-> ex.read]

\* run_delete, from the first statement to the return (or to the exception
\* that leaves it).  listed: the lines _create_deletion_list wrote in this run;
\* planfile: the lines of the deletion list as _execute_deletion found it;
\* master: the ledger file afterwards (no statement writes it).
run_delete(m, p, files, faults) ==
    LET cdl == create_deletion_list(m, p)
        ex == execute_deletion(cdl.plan, files, faults)
        listed == IF cdl.wrote THEN cdl.plan.lines ELSE <<>>
    IN  IF ~m.exists
        THEN [fs |-> files, plan |-> p, master |-> m, result |-> "no_master", planner |-> "not_run",
              wrote |-> FALSE, listed |-> <<>>, planfile |-> <<>>,
              executor |-> "not_run", count |-> 0, removed |-> <<>>,
              visited |-> <<>>, read |-> <<>>]
        ELSE IF cdl.raised
        THEN [fs |-> files, plan |-> cdl.plan, master |-> m, result |-> "EXC", planner |-> cdl.why,
              wrote |-> cdl.wrote, listed |-> listed, planfile |-> <<>>,
              executor |-> "not_run", count |-> 0, removed |-> <<>>,
              visited |-> <<>>, read |-> <<>>]
        ELSE [fs |-> ex.fs, plan |-> ex.plan, master |-> m, result |-> ex.result, planner |-> cdl.why,
              wrote |-> cdl.wrote, listed |-> listed, planfile |-> cdl.plan.lines,
              executor |-> ex.result, count |-> ex.count,
              removed |-> ex.removed, visited |-> ex.visited, read |-> ex.read]

-----------------------------------------------------------------------------
(* The state machine.                                                      *)

\* What an operation that is not a run leaves in `last`.
Quiet(op) == [op |-> op]

\* What is kept of one _enrich_inventory stage for inspection.
StageSeen(st) ==
    [ran |-> st.ran, raised |-> st.raised, n |-> st.n, k |-> st.k,
     calls |-> st.calls, cache |-> st.cache, failed |-> st.failed]

\* Configurations init_plugin can be handed.
KeyValues == {"None", "k"}
MoviePaths == {"None", MovieRoot, "/gone", "/file"}
TvPaths == {"None", TvRoot, "/gone", "/file"}
AllConfigs == [tmdb_api_key : KeyValues, movie_path : MoviePaths, tv_path : TvPaths]

\* The two run_delete invocations the host can have in flight at once, and
\* the locals of one that has not started.
Invocations == {1, 2}
Idle == [pc |-> "idle", todo |-> <<>>, i |-> 1, count |-> 0, removed |-> <<>>]

NoArtifacts ==
    /\ inv = [k \in Kinds |-> NoFile]
    /\ enr = [k \in Kinds |-> NoFile]
    /\ master = NoMaster
    /\ plan = NoPlan
    /\ edits = 0
    /\ last = Quiet("init")
    /\ runs = [t \in Invocations |-> Idle]

\* The plugin freshly loaded, any configuration, on a library of one movie and
\* one episode.
Init ==
    /\ config \in AllConfigs
    /\ fs = StartFiles
    /\ NoArtifacts

\* The plugin freshly loaded, any configuration, any small library.
InitScan ==
    /\ config \in AllConfigs
    /\ fs \in {s \in SUBSET AllPaths : Cardinality(s) <= MaxFiles}
    /\ NoArtifacts

\* init_plugin(config): the host hands the plugin a new configuration.
init_plugin(cfg) ==
    /\ cfg # config
    /\ config' = cfg
    /\ last' = Quiet("init")
    /\ UNCHANGED <<fs, inv, enr, master, plan, edits, runs>>

\* The inventories run_scan is about to enrich.
InventoriesToEnrich ==
    [k \in Kinds |->
        LET base == IF k = "movie" THEN config.movie_path ELSE config.tv_path
        IN  IF Truthy(base) THEN generate_inventory(base, fs, inv[k]) ELSE inv[k]]

\* The lookups the catalog can be asked for during the next run_scan.
RequestKeys ==
    {<<k, r.SearchTitle, r.SearchYear>> :
        k \in Kinds, r \in Range(ReadInventory(InventoriesToEnrich["movie"]))
                           \cup Range(ReadInventory(InventoriesToEnrich["tv"]))}
    \cap LookupKeys

\* Whether some SearchYear column to be read holds both years and blanks.
MixedYearColumn ==
    \E k \in Kinds :
        LET df == ReadInventory(InventoriesToEnrich[k])
        IN  /\ \E i \in DOMAIN df : df[i].SearchYear = NaN
            /\ \E i \in DOMAIN df : df[i].SearchYear # NaN

\* The host presses "scan": run_scan runs to its end.  out is the catalog's
\* answer to each lookup; shared is how the reader stores a mixed year column.
RunScan(out, shared) ==
    \E r \in {run_scan(config, fs, plan, inv, enr, master, out, shared)} :
        /\ fs' = r.fs
        /\ plan' = r.plan
        /\ inv' = r.inv
        /\ enr' = r.enr
        /\ master' = r.master
        /\ edits' = IF r.merged THEN 0 ELSE edits
        /\ last' = [op |-> "scan", result |-> r.result,
                    stage |-> [k \in Kinds |-> StageSeen(r.stage[k])],
                    merged |-> r.merged, found |-> r.found]
        /\ UNCHANGED <<config, runs>>

\* The host presses "delete": run_delete runs to its end.  faults are the
\* paths on which os.remove raises during this run; again tells whether the
\* run directly follows another run_delete.
RunDelete(faults) ==
    \E r \in {run_delete(master, plan, fs, faults)} :
        /\ fs' = r.fs
        /\ plan' = r.plan
        /\ master' = r.master
        /\ last' = [op |-> "delete", result |-> r.result, removed |-> r.removed,
                    visited |-> r.visited, read |-> r.read, planner |-> r.planner,
                    wrote |-> r.wrote, listed |-> r.listed, planfile |-> r.planfile,
                    executor |-> r.executor, count |-> r.count,
                    stale |-> plan.exists, faults |-> faults,
                    again |-> last.op = "delete"]
        /\ UNCHANGED <<config, inv, enr, edits, runs>>

\* The paths the next run_delete would try to remove.
PathsAtStake ==
    IF master.exists
    THEN Range(ReadPlan(create_deletion_list(master, plan).plan.lines)) \cap fs
    ELSE {}

\* Texts the user types into an Action cell (EmptyStr: leaves it blank).
ActionTexts ==
    {EmptyStr, <<"D", "E", "L", "E", "T", "E">>, <<"D", "e", "l", "e", "t", "e">>,
     <<"k", "e", "e", "p">>}

\* What the user can leave in a FilePath cell: nothing, a blank, or the
\* path of any row of the ledger (a copied cell).
PathTexts == {EmptyStr, <<" ">>} \cup {master.rows[j].FilePath : j \in DOMAIN master.rows}

\* The user types into the Action cell of one row (adding the Action
\* column if the ledger has none yet).
EditAction(i, text) ==
    /\ master.exists
    /\ edits < MaxEdits
    /\ i \in DOMAIN master.rows
    /\ master' = [master EXCEPT !.hasAction = TRUE, !.rows[i].Action = text]
    /\ master' # master
    /\ edits' = edits + 1
    /\ last' = Quiet("edit")
    /\ UNCHANGED <<config, fs, inv, enr, plan, runs>>

\* The user overwrites the FilePath cell of one row.
EditPath(i, text) ==
    /\ master.exists
    /\ edits < MaxEdits
    /\ i \in DOMAIN master.rows
    /\ master' = [master EXCEPT !.rows[i].FilePath = text]
    /\ master' # master
    /\ edits' = edits + 1
    /\ last' = Quiet("edit")
    /\ UNCHANGED <<config, fs, inv, enr, plan, runs>>

\* The user removes the Action column.
DropActionColumn ==
    /\ master.exists
    /\ master.hasAction
    /\ edits < MaxEdits
    /\ master' = [master EXCEPT !.hasAction = FALSE,
                                !.rows = [i \in DOMAIN @ |-> [@[i] EXCEPT !.Action = EmptyStr]]]
    /\ edits' = edits + 1
    /\ last' = Quiet("edit")
    /\ UNCHANGED <<config, fs, inv, enr, plan, runs>>

Scans ==
    \E out \in [RequestKeys -> Outcomes] :
        \E shared \in (IF MixedYearColumn THEN BOOLEAN ELSE {FALSE}) : RunScan(out, shared)

Deletes == \E faults \in SUBSET PathsAtStake : RunDelete(faults)

Edits ==
    \/ \E i \in 1..Len(master.rows), text \in ActionTexts : EditAction(i, text)
    \/ \E i \in 1..Len(master.rows), text \in PathTexts : EditPath(i, text)
    \/ DropActionColumn

Next ==
    \/ Scans
    \/ Deletes
    \/ Edits

Spec == Init /\ [][Next]_vars

NextScan ==
    \/ \E cfg \in AllConfigs : init_plugin(cfg)
    \/ Scans

SpecScan == InitScan /\ [][NextScan]_vars


\* The host changes the credential only: init_plugin with the same roots.
ReKey == \E k \in KeyValues : init_plugin([config EXCEPT !.tmdb_api_key = k])

\* The user removes the master ledger from the data directory.
DiscardLedger ==
    /\ master.exists
    /\ master' = NoMaster
    /\ edits' = 0
    /\ last' = Quiet("edit")
    /\ UNCHANGED <<config, fs, inv, enr, plan, runs>>

\* The plugin loaded with both roots configured, with or without a credential,
\* on a library of one movie.
InitGuard ==
    /\ config \in {c \in AllConfigs : c.movie_path = MovieRoot /\ c.tv_path = TvRoot}
    /\ fs = {<<"a">>}
    /\ NoArtifacts

NextGuard ==
    \/ ReKey
    \/ Scans
    \/ Deletes
    \/ Edits
    \/ DiscardLedger

\* The whole protocol on a configured library, the credential and the ledger
\* file coming and going.
SpecGuard == InitGuard /\ [][NextGuard]_vars

-----------------------------------------------------------------------------
(* Two run_delete invocations in flight at once.  Nothing in the plugin     *)
(* serialises them: each runs the statements of run_delete in order, and    *)
(* the statements of the two interleave.  The planner is one step; the      *)
(* executor's test for the list, its read of the list, each test of a path, *)
(* each os.remove and the removal of the list are steps of their own.       *)

\* The fields of runs[t] after the step `change` of invocation t.
Step(t, change) == [runs EXCEPT ![t] = change @@ runs[t]]

\* The locals after the loop has dealt with the current path.
Advance(t) ==
    [i |-> runs[t].i + 1,
     pc |-> IF runs[t].i = Len(runs[t].todo) THEN "cleanup" ELSE "check"]

\* run_delete is entered: os.path.exists(self.master_file).
Begin(t) ==
    /\ runs[t].pc = "idle"
    /\ runs' = Step(t, [pc |-> IF master.exists THEN "plan" ELSE "done"])
    /\ UNCHANGED <<config, fs, inv, enr, master, plan, edits, last>>

\* self._create_deletion_list()
Plan(t) ==
    /\ runs[t].pc = "plan"
    /\ \E cdl \in {create_deletion_list(master, plan)} :
          /\ plan' = cdl.plan
          /\ runs' = Step(t, [pc |-> IF cdl.raised THEN "raised" ELSE "open"])
    /\ UNCHANGED <<config, fs, inv, enr, master, edits, last>>

\* _execute_deletion: os.path.exists(self.delete_list_file)
Open(t) ==
    /\ runs[t].pc = "open"
    /\ runs' = Step(t, [pc |-> IF plan.exists THEN "read" ELSE "done"])
    /\ UNCHANGED <<config, fs, inv, enr, master, plan, edits, last>>

\* _execute_deletion: open and read the list (open raises when the list has
\* gone since the test), then the test for an empty list.
Read(t) ==
    /\ runs[t].pc = "read"
    /\ runs' = IF ~plan.exists THEN Step(t, [pc |-> "raised"])
               ELSE Step(t, [todo |-> ReadPlan(plan.lines),
                             pc |-> IF ReadPlan(plan.lines) = <<>> THEN "done" ELSE "check"])
    /\ UNCHANGED <<config, fs, inv, enr, master, plan, edits, last>>

\* os.path.exists(f_path) and os.path.isfile(f_path)
Check(t) ==
    /\ runs[t].pc = "check"
    /\ runs' = IF runs[t].todo[runs[t].i] \in fs
               THEN Step(t, [pc |-> "remove"])
               ELSE Step(t, Advance(t))
    /\ UNCHANGED <<config, fs, inv, enr, master, plan, edits, last>>

\* os.remove(f_path); deleted_count += 1.  os.remove raises when the file has
\* gone since the test, or when the removal faults; the except clause
\* swallows it and nothing is counted.
Remove(t, fault) ==
    /\ runs[t].pc = "remove"
    /\ LET p == runs[t].todo[runs[t].i]
       IN  IF p \in fs /\ ~fault
           THEN /\ fs' = fs \ {p}
                /\ runs' = Step(t, [count |-> runs[t].count + 1,
                                    removed |-> Append(runs[t].removed, p)]
                                   @@ Advance(t))
           ELSE /\ fs' = fs
                /\ runs' = Step(t, Advance(t))
    /\ UNCHANGED <<config, inv, enr, master, plan, edits, last>>

\* os.remove(self.delete_list_file), which raises when the list has gone.
Cleanup(t) ==
    /\ runs[t].pc = "cleanup"
    /\ plan' = NoPlan
    /\ runs' = Step(t, [pc |-> IF plan.exists THEN "done" ELSE "raised"])
    /\ UNCHANGED <<config, fs, inv, enr, master, edits, last>>

\* The configuration with both roots and the credential.
RaceConfig == [tmdb_api_key |-> "k", movie_path |-> MovieRoot, tv_path |-> TvRoot]

\* What one run_scan of the library leaves on disk.
ScannedOnce ==
    scan_stages(RaceConfig, StartFiles, [k \in Kinds |-> NoFile], [k \in Kinds |-> NoFile],
                NoMaster, [key \in LookupKeys |-> "ok"], FALSE)

\* The ledgers the user can have made of it: with or without an Action column,
\* each row marked or not, each FilePath kept, cleared or copied from row 1.
RaceLedgers ==
    {[exists |-> TRUE, hasAction |-> h,
      rows |-> [i \in DOMAIN ScannedOnce.master.rows |->
                  [ScannedOnce.master.rows[i] EXCEPT
                      !.Action = IF h THEN acts[i] ELSE EmptyStr,
                      !.FilePath = IF paths[i] = "kept" THEN @
                                   ELSE IF paths[i] = "cleared" THEN EmptyStr
                                   ELSE ScannedOnce.master.rows[1].FilePath]]] :
        h \in BOOLEAN,
        acts \in [DOMAIN ScannedOnce.master.rows -> {EmptyStr, <<"D", "E", "L", "E", "T", "E">>}],
        paths \in [DOMAIN ScannedOnce.master.rows -> {"kept", "cleared", "copied"}]}

\* The deletion list when the invocations start: none, or the one an earlier
\* run_delete left when its planner was cut short after its first line.
RaceLists == {NoPlan, [exists |-> TRUE, lines |-> <<ScannedOnce.master.rows[1].FilePath>>]}

\* A scanned and hand-edited ledger, and no invocation started yet.
InitRace ==
    /\ config = RaceConfig
    /\ fs = StartFiles
    /\ inv = ScannedOnce.inv
    /\ enr = ScannedOnce.enr
    /\ master \in RaceLedgers
    /\ plan \in RaceLists
    /\ edits = 0
    /\ last = Quiet("init")
    /\ runs = [t \in Invocations |-> Idle]

NextRace ==
    \E t \in Invocations :
        \/ Begin(t)
        \/ Plan(t)
        \/ Open(t)
        \/ Read(t)
        \/ Check(t)
        \/ \E fault \in BOOLEAN : Remove(t, fault)
        \/ Cleanup(t)

SpecRace == InitRace /\ [][NextRace]_vars

-----------------------------------------------------------------------------
(* Properties.                                                             *)

DELETE == <<"D", "E", "L", "E", "T", "E">>

\* The ledger as a run of run_delete reads it (run_delete never writes it).
Ledger == ReadMaster(master)

\* Rows whose Action is "delete" in some letter case.
MarkedRows == {i \in DOMAIN Ledger : Upper(Ledger[i].Action) = DELETE}

\* The paths _execute_deletion takes from the lines of a deletion list.
PathsOf(lines) == {Strip(lines[i]) : i \in DOMAIN lines} \ {<<>>}

\* C1: every file a run_delete removes has its path in a row of the ledger
\* whose Action is DELETE (any letter case); with no row so marked, the run
\* removes nothing.
C1_DeleteOnlyMarkedRows ==
    last.op = "delete" =>
        \A p \in Range(last.removed) : \E i \in MarkedRows : Ledger[i].FilePath = p

\* C2: a run_scan step changes neither the media files nor the deletion list
\* (it runs neither planner nor executor); a media file disappears only in a
\* run_delete step, and only if its path is read from the deletion list the
\* executor opened.
C2_ScanNeverDeletes ==
    [][ /\ (last'.op = "scan" => fs' = fs /\ plan' = plan)
        /\ (fs' # fs =>
               /\ last'.op = "delete"
               /\ fs' \subseteq fs
               /\ (fs \ fs') \subseteq PathsOf(last'.planfile)) ]_vars

\* A run_scan has completed while a deletion list left by an aborted
\* run_delete lay on disk, naming a file that exists.
C2_Witness ==
    /\ last.op = "scan"
    /\ last.result = "scan_done"
    /\ plan.exists
    /\ PathsOf(plan.lines) \cap fs # {}

\* C3: for a ledger with an Action column, the list the planner produces is
\* the FilePath of each row marked "delete" (any letter case), one entry per
\* such row, in ledger row order.
C3_PlanIsMarkedPathsInOrder ==
    (last.op = "delete" /\ last.planner # "not_run" /\ master.hasAction) =>
        last.listed = SelectIdx([i \in DOMAIN Ledger |-> Ledger[i].FilePath], MarkedRows, 1)

\* C4: once the executor runs its loop, every path of the list is visited, in
\* order, and afterwards no listed path whose removal did not fault exists,
\* whatever happened to the paths before or after it.
C4_PerFileFaultIsolation ==
    (last.op = "delete" /\ last.executor = "done") =>
        /\ last.visited = last.read
        /\ \A p \in Range(last.read) : p \notin last.faults => p \notin fs

\* The first listed path faulted and a later one was removed all the same.
C4_Witness ==
    /\ last.op = "delete"
    /\ last.executor = "done"
    /\ Len(last.read) >= 2
    /\ last.read[1] \in last.faults
    /\ last.read[1] \in fs
    /\ last.read[2] \in Range(last.removed)

\* C5: after the executor has gone through the paths of a list, the
\* deletion list is gone from disk, however many paths were removed, missing
\* or faulted; so a list that was executed is never found by a later run.
C5_PlanClearedAfterExecution ==
    (last.op = "delete" /\ last.executor = "done") => ~plan.exists

\* A list of two paths was executed with one path faulting.
C5_Witness ==
    /\ last.op = "delete"
    /\ last.executor = "done"
    /\ Len(last.read) = 2
    /\ last.count = 1
    /\ last.faults # {}
    /\ ~plan.exists

\* The root configured for a kind, and the Type its rows carry in the ledger.
RootOf(k) == IF k = "movie" THEN config.movie_path ELSE config.tv_path
TypeOf(k) == IF k = "movie" THEN "Movie" ELSE "TV Show"

\* The distinct (SearchTitle, SearchYear) keys of the inventory of a kind.
KeysOf(k) == {KeyOf(r) : r \in Range(ReadInventory(inv[k]))}

\* C6: after a run_scan that completes with a credential, a kind whose root is
\* unset, missing or no directory is skipped: no lookup was made for it and
\* the ledger the run wrote has no row of it.
C6_SkippedKindNotInLedger ==
    (last.op = "scan" /\ last.result = "scan_done") =>
        \A k \in Kinds :
            (~Truthy(RootOf(k)) \/ ~IsDir(RootOf(k))) =>
                /\ last.stage[k].calls = <<>>
                /\ last.merged => \A i \in DOMAIN master.rows : master.rows[i].Type # TypeOf(k)

\* C7: the ledger a completed run_scan leaves holds rows of a kind only for
\* files this run's scan found under that kind's root; none when it found none.
C7_LedgerOnlyThisRunsFiles ==
    (last.op = "scan" /\ last.result = "scan_done" /\ master.exists) =>
        \A i \in DOMAIN master.rows : \A k \in Kinds :
            master.rows[i].Type = TypeOf(k) =>
                master.rows[i].FilePath \in Range(last.found[k])

\* C8: an enrichment stage on N records with K distinct keys makes exactly K
\* lookups, one per key, and writes exactly N rows, one per record, in order.
C8_EnrichCardinality ==
    last.op = "scan" =>
        \A k \in Kinds :
            last.stage[k].ran =>
                /\ Len(last.stage[k].calls) = Cardinality(KeysOf(k))
                /\ Range(last.stage[k].calls) = KeysOf(k)
                /\ ~last.stage[k].raised
                /\ enr[k].exists
                /\ Len(enr[k].rows) = Len(inv[k].rows)
                /\ \A i \in DOMAIN inv[k].rows :
                       enr[k].rows[i].FilePath = inv[k].rows[i].FilePath

\* C9: every record gets what the one lookup of its own key put in the cache:
\* enrichment fields set when that lookup returned a detail record (also for a
\* record with no year), unset when it returned nothing.
C9_CacheFanOut ==
    last.op = "scan" =>
        \A k \in Kinds :
            (last.stage[k].ran /\ ~last.stage[k].raised) =>
                \A i \in DOMAIN enr[k].rows :
                    \A j \in DOMAIN last.stage[k].cache :
                        last.stage[k].cache[j].key = KeyOf(ReadInventory(inv[k])[i]) =>
                            enr[k].rows[i].TMDb = last.stage[k].cache[j].details

\* C10: when a lookup fails at the remote service, the run still looks up
\* every distinct key of every inventory, leaves the rows of the failed key
\* without enrichment, merges, and writes the ledger.
C10_LookupFailureIsolated ==
    (last.op = "scan" /\ \E k \in Kinds : last.stage[k].failed # {}) =>
        /\ last.result = "scan_done"
        /\ last.merged
        /\ \A k \in Kinds :
               inv[k].exists =>
                   /\ last.stage[k].ran
                   /\ Range(last.stage[k].calls) = KeysOf(k)
                   /\ enr[k].exists
                   /\ \A i \in DOMAIN enr[k].rows :
                          KeyOf(ReadInventory(inv[k])[i]) \in last.stage[k].failed =>
                              enr[k].rows[i].TMDb = EmptyStr

\* The rows of the enriched set of a kind (none when the set is absent), and
\* the rows the merge is expected to write when the TV rows carry Type tv_type.
EnrichedRows(k) == IF enr[k].exists THEN enr[k].rows ELSE <<>>

MergedAsExpected(tv_type) ==
    LET M == Len(EnrichedRows("movie"))
        T == Len(EnrichedRows("tv"))
    IN  /\ Len(master.rows) = M + T
        /\ \A i \in 1..M :
               /\ master.rows[i].FilePath = EnrichedRows("movie")[i].FilePath
               /\ master.rows[i].Type = "Movie"
        /\ \A i \in 1..T :
               /\ master.rows[M + i].FilePath = EnrichedRows("tv")[i].FilePath
               /\ master.rows[M + i].Type = tv_type

C12_NoCredentialNoEffect ==
    [][ (last'.op = "scan" /\ ~Truthy(config.tmdb_api_key)) =>
            /\ last'.result = "None"
            /\ \A k \in Kinds : /\ last'.found[k] = <<>>
                                /\ ~last'.stage[k].ran
                                /\ last'.stage[k].calls = <<>>
            /\ ~last'.merged
            /\ <<fs, inv, enr, master, plan>>' = <<fs, inv, enr, master, plan>> ]_vars

\* A run_scan has returned at the credential check while inventories, a
\* ledger with a DELETE mark and a deletion list were on disk.
C12_Witness ==
    /\ last.op = "scan"
    /\ last.result = "None"
    /\ inv["movie"].exists
    /\ enr["movie"].exists
    /\ master.exists
    /\ MarkedRows # {}
    /\ plan.exists

\* C13: when the ledger has no Action column, the result run_delete returns to
\* the host names the missing Action column as the precondition not met.
C13_MissingActionColumnReported ==
    (last.op = "delete" /\ last.planner = "no_action_column") =>
        last.result = "no_action_column"

\* C14: a run_delete that finds no master ledger returns its message without
\* running the planner or the executor: no file is removed and the deletion
\* list, if there is one, is neither read, written nor removed.
C14_NoLedgerNoEffect ==
    [][ (last'.op = "delete" /\ ~master.exists) =>
            /\ last'.result = "no_master"
            /\ last'.planner = "not_run"
            /\ last'.executor = "not_run"
            /\ last'.read = <<>>
            /\ ~last'.wrote
            /\ fs' = fs
            /\ plan' = plan ]_vars

\* A run_delete has found the ledger gone while a deletion list left by an
\* earlier run was on disk.
C14_Witness ==
    /\ last.op = "delete"
    /\ last.result = "no_master"
    /\ ~master.exists
    /\ plan.exists
    /\ fs # {}

\* C15: every run_scan and every run_delete ends by returning a result to the
\* host; none is left by an exception, whatever the configuration, the
\* artifacts on disk and the content of the hand-edited ledger.
C15_NoUnhandledFault ==
    last.op \in {"scan", "delete"} => last.result # "EXC"

\* C16: the count the executor reports is the number of files this run
\* removed from the filesystem: a missing path and a path whose removal
\* faults are not counted, and a path listed twice is counted once.
C16_CountIsFilesRemoved ==
    [][ last'.op = "delete" =>
            /\ last'.count = Cardinality(fs \ fs')
            /\ Range(last'.removed) = fs \ fs'
            /\ Len(last'.removed) = last'.count ]_vars

\* A list naming the same existing file twice has been executed: the file
\* was removed at its first mention and the count is 1.
C16_Witness ==
    /\ last.op = "delete"
    /\ last.executor = "done"
    /\ \E i, j \in DOMAIN last.read : i < j /\ last.read[i] = last.read[j]
                                       /\ last.read[i] \in Range(last.removed)
    /\ last.count = 1

\* What a run_delete that directly follows another run_delete (same ledger,
\* no file re-created) must do to repeat it without effect.
RepeatsWithoutEffect ==
    /\ last'.listed = last.listed
    /\ last'.removed = <<>>
    /\ last'.count = 0
    /\ fs' = fs
    /\ plan' = plan

\* os.remove raised for some path the last run_delete visited.
FaultedLastTime == Range(last.visited) \cap last.faults # {}

C18_NoListBetweenRuns == ~plan.exists

\* C19: a run_delete writes neither the master ledger nor the inventories nor
\* the enriched sets; the rows of the files it removed stay in the ledger,
\* DELETE marks included.
C19_DeleteLeavesLedger ==
    [][ last'.op = "delete" => master' = master /\ inv' = inv /\ enr' = enr ]_vars

\* A run_delete has removed a file whose row is still in the ledger, still
\* marked DELETE.
C19_Witness ==
    /\ last.op = "delete"
    /\ last.removed # <<>>
    /\ \A p \in Range(last.removed) : \E i \in MarkedRows : Ledger[i].FilePath = p
    /\ Range(last.removed) \cap fs = {}

\* Some invocation of the interleaved run_delete has started.
Racing == \E t \in Invocations : runs[t].pc # "idle"

\* The files removed since the interleaved invocations started.
RemovedInRace == StartFiles \ fs

\* C20: when two run_delete invocations on the same ledger interleave, each
\* file is removed once and counted by one invocation (the two deleted_count
\* add up to the number of files removed), and every file removed is the
\* FilePath of a row marked DELETE.
C20_InterleavedDeletes ==
    Racing =>
        /\ runs[1].count + runs[2].count = Cardinality(RemovedInRace)
        /\ Range(runs[1].removed) \cap Range(runs[2].removed) = {}
        /\ Range(runs[1].removed) \cup Range(runs[2].removed) = RemovedInRace
        /\ \A p \in RemovedInRace : \E i \in MarkedRows : Ledger[i].FilePath = p

====
